---------------------------- MODULE Spec2Model ----------------------------
(***************************************************************************)
(* Model of modo_promotions.py: the link collector (fetch_promo_links),    *)
(* the page extractor (_parse_single_promo) and the batch runner           *)
(* (build_promo_dataframe).                                                *)
(*                                                                         *)
(* Strings are sequences of one-character strings, so that strip, lower,   *)
(* startswith, urljoin and sorted are computed on the characters.  A       *)
(* Python value that may be None is a record [some, v].                    *)
(***************************************************************************)
EXTENDS Integers, Sequences, FiniteSets, TLC

VARIABLES
    call,           \* which function of the module is running
    pc,             \* its position
    opened,         \* browser sessions opened (webdriver.Chrome(...))
    closed,         \* browser sessions closed (driver.quit())
    raised,         \* the exception that left the function, or "none"
    \* ---- fetch_promo_links: the listing page as the browser shows it
    vh,             \* window.innerHeight
    height,         \* scrollable height of the document
    landmark,       \* document y of the "help" heading
    cards,          \* href attribute values of the rendered card elements
    loaded,         \* lazy loads that have happened
    y,              \* window.pageYOffset
    \* ---- fetch_promo_links: parameters and locals
    max_stalls, y_before, y_after, last_y, seen, stalls, result,
    \* ---- build_promo_dataframe
    urls, recs, gets, frame,
    \* ---- _parse_single_promo
    url,            \* the URL being extracted
    rec,            \* the record under construction
    comercios_btn,  \* TRUE when a "Ver listado" element was captured
    nblk,           \* parameter blocks processed so far
    dom             \* the nodes the last headline, image, subtitle or modal step looked up

linkVars  == <<vh, height, landmark, cards, loaded, y, max_stalls,
               y_before, y_after, last_y, seen, stalls, result>>
batchVars == <<urls, recs, gets, frame>>
parseVars == <<url, rec, comercios_btn, nblk, dom>>
vars      == <<call, pc, opened, closed, raised, linkVars, batchVars, parseVars>>

---------------------------------------------------------------------------
\* Bounds of the model.
MaxStalls == 2
MaxCards  == 3
MaxLazy   == 1
MaxUrls   == 5
MaxBlocks == 1
MaxItems  == 2

---------------------------------------------------------------------------
\* Python values.
None    == [some |-> FALSE, v |-> <<>>]
Some(x) == [some |-> TRUE, v |-> x]
\* Python truthiness of an optional string or list: None and "" / [] are falsy.
Truthy(o) == o.some /\ o.v # <<>>

Min(a, b) == IF a < b THEN a ELSE b
Max(a, b) == IF a > b THEN a ELSE b

\* The characters the model's strings use, in code point order.
Alphabet ==
    << " ", ".", "/", ":", "1", "2", "A", "B", "C", "D", "F", "L", "S", "T",
       "U", "V", "X", "a", "b", "c", "d", "e", "g", "h", "i", "l", "m", "n",
       "o", "p", "r", "s", "t", "u", "v", "w", "x", "y" >>
Ord(c) == CHOOSE i \in 1..Len(Alphabet) : Alphabet[i] = c

UpperCase == << "A", "B", "C", "D", "F", "L", "S", "T", "U", "V", "X" >>
LowerCase == << "a", "b", "c", "d", "f", "l", "s", "t", "u", "v", "x" >>
LowerChar(c) ==
    IF \E i \in 1..Len(UpperCase) : UpperCase[i] = c
    THEN LowerCase[CHOOSE i \in 1..Len(UpperCase) : UpperCase[i] = c]
    ELSE c
\* str.lower()
Lower(s) == [i \in 1..Len(s) |-> LowerChar(s[i])]

\* str.startswith(p)
StartsWith(s, p) == Len(p) <= Len(s) /\ SubSeq(s, 1, Len(p)) = p
\* p in s
Contains(s, p) ==
    \E i \in 1..(Len(s) - Len(p) + 1) : SubSeq(s, i, i + Len(p) - 1) = p

\* str.strip(): leading and trailing white space removed.
RECURSIVE LStrip(_)
LStrip(s) == IF s # <<>> /\ Head(s) = " " THEN LStrip(Tail(s)) ELSE s
RECURSIVE RStrip(_)
RStrip(s) ==
    IF s # <<>> /\ s[Len(s)] = " " THEN RStrip(SubSeq(s, 1, Len(s) - 1)) ELSE s
Strip(s) == RStrip(LStrip(s))

\* Python's order on str: by code point, a proper prefix first.
RECURSIVE StrLess(_, _)
StrLess(a, b) ==
    IF b = <<>> THEN FALSE
    ELSE IF a = <<>> THEN TRUE
    ELSE IF Head(a) = Head(b) THEN StrLess(Tail(a), Tail(b))
    ELSE Ord(Head(a)) < Ord(Head(b))

\* sorted(S) for a set of strings.
RECURSIVE Sorted(_)
Sorted(S) ==
    IF S = {} THEN <<>>
    ELSE LET m == CHOOSE x \in S : \A z \in S : z = x \/ StrLess(x, z)
         IN  <<m>> \o Sorted(S \ {m})

---------------------------------------------------------------------------
\* urllib.parse.urljoin, for references without query, fragment or dot
\* segments.
Colon == <<":">>
Slash == <<"/">>
SchemeChars ==
    { "a", "b", "c", "d", "e", "g", "h", "i", "l", "m", "n", "o", "p", "r",
      "s", "t", "u", "v", "w", "x", "y", "1", "2", "." }
Letters == SchemeChars \ { "1", "2", "." }

\* str.find(c, from - 1) + 1: the first position of c at or after `from`, or 0.
RECURSIVE IndexOf(_, _, _)
IndexOf(s, c, from) ==
    IF from > Len(s) THEN 0
    ELSE IF s[from] = c THEN from
    ELSE IndexOf(s, c, from + 1)

\* urlsplit: [scheme, netloc, path]; the scheme defaults to `dflt`.
UrlSplit(u, dflt) ==
    LET i    == IndexOf(u, ":", 1)
        hasS == /\ i > 1
                /\ LowerChar(u[1]) \in Letters
                /\ \A j \in 1..(i - 1) : LowerChar(u[j]) \in SchemeChars
        sch  == IF hasS THEN Lower(SubSeq(u, 1, i - 1)) ELSE dflt
        rest == IF hasS THEN SubSeq(u, i + 1, Len(u)) ELSE u
        hasN == StartsWith(rest, <<"/", "/">>)
        e    == IF hasN THEN IndexOf(rest, "/", 3) ELSE 0
        net  == IF ~hasN THEN <<>>
                ELSE IF e = 0 THEN SubSeq(rest, 3, Len(rest))
                ELSE SubSeq(rest, 3, e - 1)
        path == IF ~hasN THEN rest
                ELSE IF e = 0 THEN <<>> ELSE SubSeq(rest, e, Len(rest))
    IN  [scheme |-> sch, netloc |-> net, path |-> path]

UrlUnsplit(p) ==
    (IF p.scheme # <<>> THEN p.scheme \o Colon ELSE <<>>)
    \o (IF p.netloc # <<>> THEN <<"/", "/">> \o p.netloc ELSE <<>>)
    \o p.path

HTTPS == <<"h", "t", "t", "p", "s">>
UsesRelative == { <<>>, HTTPS, <<"h", "t", "t", "p">> }

\* The directory of a base path: up to and including its last "/".
RECURSIVE BaseDir(_)
BaseDir(p) ==
    IF p = <<>> \/ p[Len(p)] = "/" THEN p ELSE BaseDir(SubSeq(p, 1, Len(p) - 1))

UrlJoinVerbatim(base, u) == u
UrlJoin(base, u) ==
    LET b == UrlSplit(base, <<>>)
        r == UrlSplit(u, b.scheme)
    IN  IF u = <<>> THEN base
        ELSE IF r.scheme # b.scheme \/ r.scheme \notin UsesRelative THEN u
        ELSE IF r.netloc # <<>> THEN UrlUnsplit(r)
        ELSE IF r.path = <<>> THEN base
        ELSE IF Head(r.path) = "/"
             THEN UrlUnsplit([scheme |-> r.scheme, netloc |-> b.netloc,
                              path |-> r.path])
        ELSE UrlUnsplit([scheme |-> r.scheme, netloc |-> b.netloc,
                         path |-> (IF BaseDir(b.path) = <<>> THEN Slash
                                   ELSE BaseDir(b.path)) \o r.path])

BASE == << "h", "t", "t", "p", "s", ":", "/", "/", "w", "w", "w", ".",
           "m", "o", "d", "o", ".", "c", "o", "m", ".", "a", "r" >>
Origin(u) == LET p == UrlSplit(u, <<>>) IN <<p.scheme, p.netloc>>
IsAbsolute(u) == LET p == UrlSplit(u, <<>>) IN p.scheme # <<>> /\ p.netloc # <<>>

\* href values a card element may carry.
HrefA      == << "/", "p", "r", "o", "m", "o", "s", "/", "a" >>
HrefB      == << "p", "r", "o", "m", "o", "s", "/", "b" >>
HrefAbsA   == BASE \o HrefA
HrefOther  == << "h", "t", "t", "p", "s", ":", "/", "/", "o", "t", "r", "o",
                 ".", "c", "o", "m", "/", "x" >>
HrefNet    == << "/", "/", "o", "t", "r", "o", ".", "c", "o", "m", "/", "y" >>
HrefC      == << "/", "p", "r", "o", "m", "o", "s", "/", "c" >>
Hrefs      == { None, Some(<<>>), Some(HrefA), Some(HrefB), Some(HrefAbsA),
                Some(HrefOther), Some(HrefNet) }
LazyHrefs  == { Some(HrefC) }

Viewports  == { 500, 1000 }
Extents    == { 0, 3, 400, 900 }       \* scrollable height beyond the viewport
Landmarks  == { 50, 450, 1200 }
Grows      == { 1, 400 }               \* growth of the document per lazy load

---------------------------------------------------------------------------
\* fetch_promo_links

STALE   == "StaleElementReferenceException"
NOELEM  == "NoSuchElementException"
TIMEOUT == "TimeoutException"

\* finally: driver.quit()
QuitOnReturnOnly(c, exc) == IF exc = "none" THEN c + 1 ELSE c
FinallyQuit(c, exc) == c + 1

\* window.scrollBy(0, window.innerHeight*0.8)
ScrollBy(h) == (h * 8) \div 10
MaxScroll == Max(0, height - vh)

NeverBottom(ya, yb, ly) == FALSE
AbsoluteBottom(ya, yb, ly) == ya = yb /\ yb = ly

InBand(top, h) == 0 < top /\ top < h - 100

\* urljoin(BASE, href) for every href of the model, computed once.
Joined == [h \in { c.v : c \in Hrefs \cup LazyHrefs } |-> UrlJoin(BASE, h)]

\* for card in ...: href = card.get_attribute("href"); if href: seen.add(urljoin(BASE, href))
Collect(s, cs) == s \cup { Joined[c.v] : c \in { d \in cs : Truthy(d) } }

StallUpdate(st, n, ya) == IF n = ya THEN st + 1 ELSE 0

idleBatch == /\ urls = <<>> /\ recs = <<>> /\ gets = <<>> /\ frame = None
idleParse == /\ url = <<>> /\ rec = None /\ comercios_btn = FALSE
             /\ nblk = 0 /\ dom = <<>>
idleLinks == /\ vh = 0 /\ height = 0 /\ landmark = 0 /\ cards = {}
             /\ loaded = 0 /\ y = 0 /\ max_stalls = 0 /\ y_before = 0
             /\ y_after = 0 /\ last_y = 0 /\ seen = {} /\ stalls = 0
             /\ result = None

\* The listing pages the site may serve.
CardSets == { c \in SUBSET Hrefs : Cardinality(c) <= MaxCards }

InitLinks ==
    /\ call = "fetch_promo_links" /\ pc = "start"
    /\ opened = 0 /\ closed = 0 /\ raised = "none"
    /\ vh = 0 /\ height = 0 /\ landmark = 0 /\ cards = {}
    /\ loaded = 0 /\ y = 0
    /\ max_stalls \in 0..MaxStalls
    /\ y_before = 0 /\ y_after = 0 /\ last_y = 0
    /\ seen = {} /\ stalls = 0 /\ result = None
    /\ idleBatch /\ idleParse

\* lines 50-62: open the session, load the listing, find the landmark.
FetchStartOn(cardSets) ==
    /\ call = "fetch_promo_links" /\ pc = "start"
    /\ opened' = opened + 1
    /\ \E v \in Viewports, e \in Extents, l \in Landmarks, cs \in cardSets :
         /\ vh' = v /\ height' = v + e /\ landmark' = l /\ cards' = cs
    /\ \E found \in BOOLEAN :
         IF found
         THEN /\ seen' = {} /\ stalls' = 0 /\ last_y' = -1
              /\ pc' = "loop"
              /\ UNCHANGED <<closed, raised>>
         ELSE /\ raised' = NOELEM
              /\ closed' = FinallyQuit(closed, NOELEM)
              /\ pc' = "raised"
              /\ UNCHANGED <<seen, stalls, last_y>>
    /\ UNCHANGED <<call, loaded, y, max_stalls, y_before, y_after, result,
                   batchVars, parseVars>>
FetchStart == FetchStartOn(CardSets)

\* return sorted(seen), through the finally clause.
FetchReturn ==
    /\ result' = Some(Sorted(seen))
    /\ closed' = FinallyQuit(closed, "none")
    /\ pc' = "returned"

\* lines 63-76: the loop test, one scroll attempt, the bottom check and the
\* landmark test.
ScrollStep ==
    /\ call = "fetch_promo_links" /\ pc = "loop"
    /\ IF stalls >= max_stalls
       THEN /\ FetchReturn
            /\ UNCHANGED <<y, y_before, y_after, last_y>>
       ELSE LET yb == y
                ya == Min(y + ScrollBy(vh), MaxScroll)
            IN  /\ y' = ya /\ y_before' = yb /\ y_after' = ya
                /\ IF AbsoluteBottom(ya, yb, last_y)
                   THEN /\ FetchReturn
                        /\ UNCHANGED last_y
                   ELSE /\ last_y' = ya
                        /\ pc' = IF InBand(landmark - ya, vh)
                                 THEN "collect" ELSE "loop"
                        /\ UNCHANGED <<result, closed>>
    /\ UNCHANGED <<call, opened, raised, vh, height, landmark, cards, loaded,
                   max_stalls, seen, stalls, batchVars, parseVars>>

\* lines 77-82: after the pause, collect the hrefs and update the stall counter.
CollectStep ==
    /\ call = "fetch_promo_links" /\ pc = "collect"
    /\ seen' = Collect(seen, cards)
    /\ stalls' = StallUpdate(stalls, Cardinality(seen'), y_after)
    /\ pc' = "loop"
    /\ UNCHANGED <<call, opened, closed, raised, vh, height, landmark, cards,
                   loaded, y, max_stalls, y_before, y_after, last_y, result,
                   batchVars, parseVars>>

\* The site renders more cards above the landmark (scroll-triggered lazy
\* loading), during one of the sleeps.
LazyLoad ==
    /\ call = "fetch_promo_links" /\ pc \in {"loop", "collect"}
    /\ loaded < MaxLazy
    /\ \E h \in LazyHrefs, g \in Grows :
         /\ cards' = cards \cup {h}
         /\ height' = height + g
         /\ landmark' = landmark + g
    /\ loaded' = loaded + 1
    /\ UNCHANGED <<call, pc, opened, closed, raised, vh, y, max_stalls,
                   y_before, y_after, last_y, seen, stalls, result,
                   batchVars, parseVars>>

LinksNext == FetchStart \/ ScrollStep \/ CollectStep \/ LazyLoad

\* For termination only the number of links matters: the cards carry plain
\* hrefs.  The program is sequential and never blocks, so its next step is
\* always taken.
PlainCardSets == { c \in CardSets : c \subseteq {Some(HrefA), Some(HrefB)} }
FetchStartPlain == FetchStartOn(PlainCardSets)
FairProgram == FetchStartPlain \/ ScrollStep \/ CollectStep
FairNext == FairProgram \/ LazyLoad
FairSpec == InitLinks /\ [][FairNext]_vars /\ WF_vars(FairProgram)

---------------------------------------------------------------------------
\* _parse_single_promo

\* What a lookup meets: no element, an element that turns stale while it is
\* read, or an element with its text (or attribute value).
Missing   == [k |-> "missing", v |-> <<>>]
StaleNode == [k |-> "stale", v |-> <<>>]
Elem(t)   == [k |-> "ok", v |-> t]

\* rec = {...} (lines 110-116)
NewRec(u) ==
    [link |-> Some(u), titulo |-> None, foto |-> None, subtitulo |-> None,
     comercios |-> None, store_names |-> None, store_addresses |-> None,
     vigencia |-> None, bancos |-> None, tope_reintegro |-> None,
     tiempo_acreditacion |-> None, dias |-> None, canal |-> None]

Ok(r)       == [rec |-> r, exc |-> "none"]
Raise(r, e) == [rec |-> r, exc |-> e]

\* lines 119-124: the first selector that resolves gives titulo.
RECURSIVE HeadlineFrom(_, _, _)
HeadlineFrom(r, nodes, i) ==
    IF i > Len(nodes) THEN Ok(r)
    ELSE IF nodes[i].k = "missing" THEN HeadlineFrom(r, nodes, i + 1)
    ELSE IF nodes[i].k = "stale" THEN Raise(r, STALE)
    ELSE Ok([r EXCEPT !.titulo = Some(Strip(nodes[i].v))])
Headline(r, nodes) == HeadlineFrom(r, nodes, 1)

\* lines 126-131: the src attribute as it is (None when the attribute is absent).
Foto(r, img) ==
    IF img.k = "missing" THEN Ok(r)
    ELSE IF img.k = "stale" THEN Raise(r, STALE)
    ELSE Ok([r EXCEPT !.foto = img.v])

\* lines 133-142: the first selector that resolves to non-empty text.
RECURSIVE SubtituloFrom(_, _, _)
SubtituloFrom(r, nodes, i) ==
    IF i > Len(nodes) THEN Ok(r)
    ELSE IF nodes[i].k = "missing" THEN SubtituloFrom(r, nodes, i + 1)
    ELSE IF nodes[i].k = "stale" THEN Raise(r, STALE)
    ELSE IF Strip(nodes[i].v) # <<>>
         THEN Ok([r EXCEPT !.subtitulo = Some(Strip(nodes[i].v))])
    ELSE SubtituloFrom(r, nodes, i + 1)
Subtitulo(r, nodes) == SubtituloFrom(r, nodes, 1)

\* _safe_text (lines 152-157): only NoSuchElementException is caught.
SafeText(n) ==
    IF n.k = "missing" THEN [txt |-> <<>>, exc |-> "none"]
    ELSE IF n.k = "stale" THEN [txt |-> <<>>, exc |-> STALE]
    ELSE [txt |-> Strip(n.v), exc |-> "none"]
\* _safe_text(blk, a) or _safe_text(blk, b)
FirstText(a, b) ==
    LET x == SafeText(a)
    IN  IF x.exc # "none" \/ x.txt # <<>> THEN x ELSE SafeText(b)

\* lines 168-172: the value text, with the second <p> as the last fall-back.
ValText(b) ==
    LET x == FirstText(b.v1, b.v2)
    IN  IF x.exc # "none" \/ x.txt # <<>> THEN x
        ELSE IF Len(b.ps) >= 2 THEN SafeText(b.ps[2])
        ELSE [txt |-> <<>>, exc |-> "none"]

\* lines 191-199: if alt: alts.append(alt.strip()); a stale image is skipped.
RECURSIVE Alts(_)
Alts(imgs) ==
    IF imgs = <<>> THEN <<>>
    ELSE (IF Head(imgs).k = "ok" /\ Truthy(Head(imgs).v)
          THEN <<Strip(Head(imgs).v.v)>> ELSE <<>>) \o Alts(Tail(imgs))

\* lines 211-218: the aria-label of every span whose aria-hidden is not "true".
TrueStr == <<"t", "r", "u", "e">>
RECURSIVE ActiveDays(_)
ActiveDays(spans) ==
    IF spans = <<>> THEN <<>>
    ELSE (IF Head(spans).k = "ok" /\ Head(spans).hidden # Some(TrueStr)
          THEN <<Head(spans).label>> ELSE <<>>) \o ActiveDays(Tail(spans))

\* alts or None
OrNone(l) == IF l = <<>> THEN None ELSE Some(l)

sComercios == <<"c", "o", "m", "e", "r", "c", "i", "o", "s">>
sVigencia  == <<"v", "i", "g", "e", "n", "c", "i", "a">>
sBancos    == <<"b", "a", "n", "c", "o", "s">>
sTope      == <<"t", "o", "p", "e">>
sTiempo    == <<"t", "i", "e", "m", "p", "o">>
sUsalo     == <<"u", "s", "a", "l", "o">>
sDesdeLa   == <<"d", "e", "s", "d", "e", " ", "l", "a">>
sVerListado == <<"v", "e", "r", " ", "l", "i", "s", "t", "a", "d", "o">>

\* lines 174-222: the field a block fills, by its lower-cased label.
Route(st, label, val, b) ==
    IF StartsWith(label, sComercios)
    THEN [rec |-> [st.rec EXCEPT !.comercios = OrNone(val)],
          btn |-> IF StartsWith(Lower(val), sVerListado) THEN b.btn ELSE st.btn,
          exc |-> "none"]
    ELSE IF StartsWith(label, sVigencia)
    THEN [st EXCEPT !.rec.vigencia = Some(val)]
    ELSE IF StartsWith(label, sBancos)
    THEN [st EXCEPT !.rec.bancos = OrNone(Alts(b.imgs))]
    ELSE IF StartsWith(label, sTope)
    THEN [st EXCEPT !.rec.tope_reintegro = Some(val)]
    ELSE IF StartsWith(label, sTiempo)
    THEN [st EXCEPT !.rec.tiempo_acreditacion = Some(val)]
    ELSE IF Contains(label, sUsalo)
    THEN [st EXCEPT !.rec.dias = OrNone(ActiveDays(b.spans))]
    ELSE IF StartsWith(label, sDesdeLa)
    THEN [st EXCEPT !.rec.canal = Some(val)]
    ELSE st

\* lines 159-222: one iteration of `for blk in blocks`, on st = [rec, btn, exc].
BlockStep(st, b) ==
    LET lab == FirstText(b.l1, b.l2)
    IN  IF lab.exc # "none" THEN [st EXCEPT !.exc = lab.exc]
        ELSE IF lab.txt = <<>> THEN st
        ELSE LET val == ValText(b)
             IN  IF val.exc # "none" THEN [st EXCEPT !.exc = val.exc]
                 ELSE Route(st, Lower(lab.txt), val.txt, b)

\* p.text.strip() of every node; a stale one is skipped (lines 239-250).
RECURSIVE Texts(_)
Texts(nodes) ==
    IF nodes = <<>> THEN <<>>
    ELSE (IF Head(nodes).k = "ok" THEN <<Strip(Head(nodes).v)>> ELSE <<>>)
         \o Texts(Tail(nodes))

\* line 225: the modal is opened only for a "ver listado" value with a captured
\* element.
WantsModal(st) ==
    /\ StartsWith(Lower(IF Truthy(st.rec.comercios) THEN st.rec.comercios.v
                        ELSE <<>>), sVerListado)
    /\ st.btn

NoModal == [click |-> "ok", appears |-> FALSE, present |-> FALSE,
            names |-> <<>>, addrs |-> <<>>, close |-> "missing"]

\* lines 225-262: m is what the click and the lookups in the modal meet.
ModalStepNamesOnly(st, m) ==
    IF ~WantsModal(st) \/ m.click = "stale" \/ ~m.appears THEN st
    ELSE IF ~m.present THEN [st EXCEPT !.exc = NOELEM]
    ELSE [st EXCEPT !.rec.store_names = OrNone(Texts(m.names))]
ModalStep(st, m) ==
    IF ~WantsModal(st) THEN st
    ELSE IF m.click = "stale" THEN st                 \* caught at line 261
    ELSE IF ~m.appears THEN st                        \* TimeoutException, caught
    ELSE IF ~m.present THEN [st EXCEPT !.exc = NOELEM]   \* line 234, not caught
    ELSE \* lines 251-260: both fields are stored before the close control is
         \* looked up; a missing control is passed over, a stale one is caught
         \* at line 261 with the fields already stored.
         [st EXCEPT !.rec.store_names = OrNone(Texts(m.names)),
                    !.rec.store_addresses = OrNone(Texts(m.addrs))]

\* A whole detail page: what every lookup of _parse_single_promo meets.
RECURSIVE BlocksFrom(_, _, _)
BlocksFrom(st, blocks, i) ==
    IF i > Len(blocks) \/ st.exc # "none" THEN st
    ELSE BlocksFrom(BlockStep(st, blocks[i]), blocks, i + 1)

ParseSinglePromo(u, p) ==
    IF ~p.load THEN Raise(None, TIMEOUT)
    ELSE LET a == Headline(NewRec(u), p.h)
             b == IF a.exc = "none" THEN Foto(a.rec, p.img) ELSE a
             c == IF b.exc = "none" THEN Subtitulo(b.rec, p.subs) ELSE b
             d == IF c.exc = "none"
                  THEN BlocksFrom([rec |-> c.rec, btn |-> FALSE, exc |-> "none"],
                                  p.blocks, 1)
                  ELSE [rec |-> c.rec, btn |-> FALSE, exc |-> c.exc]
             e == IF d.exc = "none" THEN ModalStep(d, p.modal) ELSE d
         IN  [rec |-> e.rec, exc |-> e.exc]

----
\* The texts the model's detail pages carry.
tT  == <<" ", "T", " ">>
tF  == <<"F">>
tS  == <<"S">>
tX  == <<" ", "X">>
tVL == <<"V", "e", "r", " ", "l", "i", "s", "t", "a", "d", "o">>
tB  == <<"B", " ">>
tD  == <<"D">>
tS1 == <<"S", "1">>
tA1 == <<"A", "1">>

H1Nodes    == { Missing, StaleNode, Elem(<<>>), Elem(tT) }
CardNodes  == { Missing, StaleNode, Elem(<<>>), Elem(tT) }
ImgNodes   == { Missing, StaleNode, Elem(None), Elem(Some(<<>>)), Elem(Some(tF)) }
SubNodes   == { Missing, StaleNode, Elem(<<" ">>), Elem(tS) }
LabelNodes ==
    { Missing, StaleNode, Elem(<<>>),
      Elem(<<"C", "o", "m", "e", "r", "c", "i", "o", "s">>),
      Elem(<<"V", "i", "g", "e", "n", "c", "i", "a">>),
      Elem(<<"B", "a", "n", "c", "o", "s">>),
      Elem(<<"T", "o", "p", "e">>),
      Elem(<<"T", "i", "e", "m", "p", "o">>),
      Elem(<<"U", "s", "a", "l", "o">>),
      Elem(<<"D", "e", "s", "d", "e", " ", "l", "a">>),
      Elem(<<"X">>) }
Label2Nodes == { Missing, StaleNode, Elem(<<"T", "o", "p", "e">>) }
ValNodes    == { Missing, StaleNode, Elem(tX), Elem(tVL) }
Val2Nodes   == { Missing, Elem(tX) }
ParaLists   == { <<>>, <<Elem(tD), Elem(tX)>>, <<Elem(tD), StaleNode>> }
AltNodes    == { StaleNode, Elem(None), Elem(Some(<<" ">>)), Elem(Some(tB)) }
DayNodes    ==
    { [k |-> "stale", hidden |-> None, label |-> <<>>],
      [k |-> "ok", hidden |-> Some(TrueStr), label |-> tD],
      [k |-> "ok", hidden |-> None, label |-> tD],
      [k |-> "ok", hidden |-> None, label |-> <<>>] }
NameNodes   == { StaleNode, Elem(tS1) }
AddrNodes   == { StaleNode, Elem(tA1) }

SeqsUpTo(S, n) == UNION { [1..k -> S] : k \in 0..n }

Urls == { BASE \o HrefA, BASE \o <<"/", "p", "r", "o", "m", "o", "s", "/", "b">> }

InitParse ==
    /\ call = "_parse_single_promo" /\ pc = "p_load"
    /\ opened = 1 /\ closed = 0 /\ raised = "none"
    /\ url = BASE \o HrefA
    /\ rec = None /\ comercios_btn = FALSE /\ nblk = 0 /\ dom = <<>>
    /\ idleLinks /\ idleBatch

parseFrame == <<call, opened, closed, url, linkVars, batchVars>>

\* lines 105-116: load the page, wait for <body>, create the record.
ParseLoad ==
    /\ call = "_parse_single_promo" /\ pc = "p_load"
    /\ \E ok \in BOOLEAN :
         IF ok THEN /\ rec' = NewRec(url) /\ pc' = "p_title"
                    /\ UNCHANGED raised
         ELSE /\ raised' = TIMEOUT /\ pc' = "p_raised" /\ UNCHANGED rec
    /\ UNCHANGED <<parseFrame, comercios_btn, nblk, dom>>

\* One stage of the function: its result is stored, or its exception leaves.
Stage(res, next) ==
    IF res.exc = "none"
    THEN /\ rec' = res.rec /\ pc' = next /\ UNCHANGED raised
    ELSE /\ raised' = res.exc /\ pc' = "p_raised" /\ UNCHANGED rec

ParseHeadline ==
    /\ call = "_parse_single_promo" /\ pc = "p_title"
    /\ \E n1 \in H1Nodes, n2 \in CardNodes :
         /\ Stage(Headline(rec, <<n1, n2>>), "p_foto")
         /\ dom' = <<n1, n2>>
    /\ UNCHANGED <<parseFrame, comercios_btn, nblk>>

ParseFoto ==
    /\ call = "_parse_single_promo" /\ pc = "p_foto"
    /\ \E img \in ImgNodes :
         /\ Stage(Foto(rec, img), "p_sub")
         /\ dom' = <<img>>
    /\ UNCHANGED <<parseFrame, comercios_btn, nblk>>

ParseSubtitulo ==
    /\ call = "_parse_single_promo" /\ pc = "p_sub"
    /\ \E n1 \in SubNodes, n2 \in SubNodes, n3 \in SubNodes :
         /\ Stage(Subtitulo(rec, <<n1, n2, n3>>), "p_blocks")
         /\ dom' = <<n1, n2, n3>>
    /\ UNCHANGED <<parseFrame, comercios_btn, nblk>>

\* The lookups a block's iteration does not reach are left at their defaults.
ParseBlock ==
    /\ call = "_parse_single_promo" /\ pc = "p_blocks"
    /\ nblk < MaxBlocks
    /\ \E l1 \in LabelNodes :
       \E l2 \in (IF SafeText(l1) = [txt |-> <<>>, exc |-> "none"]
                  THEN Label2Nodes ELSE {Missing}) :
         LET lab  == FirstText(l1, l2)
             read == lab.exc = "none" /\ lab.txt # <<>>
             low  == Lower(lab.txt)
         IN
       \E v1 \in (IF read THEN ValNodes ELSE {Missing}) :
       \E v2 \in (IF read /\ v1.k = "missing" THEN Val2Nodes ELSE {Missing}) :
       \E ps \in (IF read /\ v1.k = "missing" /\ v2.k = "missing"
                  THEN ParaLists ELSE {<<>>}) :
       \E btn \in (IF read /\ StartsWith(low, sComercios)
                   THEN BOOLEAN ELSE {FALSE}) :
       \E imgs \in (IF read /\ StartsWith(low, sBancos)
                    THEN SeqsUpTo(AltNodes, MaxItems) ELSE {<<>>}) :
       \E spans \in (IF read /\ Contains(low, sUsalo)
                     THEN SeqsUpTo(DayNodes, MaxItems) ELSE {<<>>}) :
         LET b  == [l1 |-> l1, l2 |-> l2, v1 |-> v1, v2 |-> v2, ps |-> ps,
                    btn |-> btn, imgs |-> imgs, spans |-> spans]
             st == BlockStep([rec |-> rec, btn |-> comercios_btn,
                              exc |-> "none"], b)
         IN  /\ Stage(st, "p_blocks")
             /\ comercios_btn' = st.btn
    /\ nblk' = nblk + 1
    /\ dom' = <<>>
    /\ UNCHANGED parseFrame

\* lines 224-264: after the last block, the optional modal, then return rec.
ParseModal ==
    /\ call = "_parse_single_promo" /\ pc = "p_blocks"
    /\ LET st == [rec |-> rec, btn |-> comercios_btn, exc |-> "none"]
       IN  \E m \in (IF WantsModal(st)
                     THEN { NoModal, [NoModal EXCEPT !.click = "stale"],
                            [NoModal EXCEPT !.appears = TRUE] }
                          \cup [click : {"ok"}, appears : {TRUE}, present : {TRUE},
                                names : SeqsUpTo(NameNodes, MaxItems),
                                addrs : SeqsUpTo(AddrNodes, MaxItems),
                                close : {"ok", "missing", "stale"}]
                     ELSE {NoModal}) :
             /\ Stage(ModalStep(st, m), "p_done")
             /\ dom' = IF WantsModal(st)
                       THEN <<[names |-> m.names, addrs |-> m.addrs]>> ELSE <<>>
    /\ UNCHANGED <<parseFrame, comercios_btn, nblk>>

ParseNext ==
    ParseLoad \/ ParseHeadline \/ ParseFoto \/ ParseSubtitulo \/ ParseBlock
    \/ ParseModal

ParseSpec == InitParse /\ [][ParseNext]_vars

---------------------------------------------------------------------------
\* build_promo_dataframe

\* The detail pages the batch runner meets.
NoBlock == [l1 |-> Missing, l2 |-> Missing, v1 |-> Missing, v2 |-> Missing,
            ps |-> <<>>, btn |-> FALSE, imgs |-> <<>>, spans |-> <<>>]
\* every optional selector missing
PageBare ==
    [load |-> TRUE, h |-> <<Missing, Missing>>, img |-> Missing,
     subs |-> <<Missing, Missing, Missing>>, blocks |-> <<>>, modal |-> NoModal]
\* a "Ver listado" value whose modal lists two stores
PageListado ==
    [PageBare EXCEPT
       !.h = <<Elem(tT), Missing>>,
       !.blocks = << [NoBlock EXCEPT
                        !.l1 = Elem(<<"C", "o", "m", "e", "r", "c", "i", "o", "s">>),
                        !.v1 = Elem(tVL), !.btn = TRUE] >>,
       !.modal = [click |-> "ok", appears |-> TRUE, present |-> TRUE,
                  names |-> <<Elem(tS1), Elem(tS1)>>,
                  addrs |-> <<Elem(tA1), Elem(tA1)>>, close |-> "ok"]]
\* the page-load wait times out
PageTimeout == [PageBare EXCEPT !.load = FALSE]
\* the headline re-renders while its text is read
PageStaleTitle == [PageBare EXCEPT !.h = <<StaleNode, Missing>>]
BatchPages == { PageBare, PageListado, PageTimeout, PageStaleTitle }

\* recs.append(...)
AppendRowUnique(rs, r) ==
    IF \E j \in 1..Len(rs) : rs[j].link = r.link THEN rs ELSE Append(rs, r)
AppendRow(rs, r) == Append(rs, r)

InitBatch ==
    /\ call = "build_promo_dataframe" /\ pc = "b_start"
    /\ opened = 0 /\ closed = 0 /\ raised = "none"
    /\ urls \in SeqsUpTo(Urls, MaxUrls)
    /\ recs = <<>> /\ gets = <<>> /\ frame = None
    /\ idleLinks /\ idleParse

\* lines 276-281: open the session.
BatchStart ==
    /\ call = "build_promo_dataframe" /\ pc = "b_start"
    /\ opened' = opened + 1
    /\ recs' = <<>>
    /\ pc' = "b_loop"
    /\ UNCHANGED <<call, closed, raised, urls, gets, frame, linkVars, parseVars>>

\* lines 282-284: one iteration; an exception of the extraction leaves through
\* the finally clause.
BatchExtract ==
    /\ call = "build_promo_dataframe" /\ pc = "b_loop"
    /\ Len(recs) < Len(urls)
    /\ LET u == urls[Len(recs) + 1]
       IN  /\ gets' = Append(gets, u)
           /\ \E p \in BatchPages :
                LET r == ParseSinglePromo(u, p)
                IN  IF r.exc = "none"
                    THEN /\ recs' = AppendRow(recs, r.rec)
                         /\ UNCHANGED <<pc, raised, closed>>
                    ELSE /\ raised' = r.exc
                         /\ closed' = FinallyQuit(closed, r.exc)
                         /\ pc' = "raised"
                         /\ UNCHANGED recs
    /\ UNCHANGED <<call, opened, urls, frame, linkVars, parseVars>>

\* lines 285-287: return pd.DataFrame(recs), through the finally clause.
BatchReturn ==
    /\ call = "build_promo_dataframe" /\ pc = "b_loop"
    /\ Len(recs) >= Len(urls)
    /\ frame' = Some(recs)
    /\ closed' = FinallyQuit(closed, "none")
    /\ pc' = "returned"
    /\ UNCHANGED <<call, opened, raised, urls, recs, gets, linkVars, parseVars>>

BatchNext == BatchStart \/ BatchExtract \/ BatchReturn

---------------------------------------------------------------------------
Init == InitLinks \/ InitBatch
Next == LinksNext \/ BatchNext
Spec == Init /\ [][Next]_vars

---------------------------------------------------------------------------
\* Properties.

Fetching == call = "fetch_promo_links"
Batching == call = "build_promo_dataframe"
Parsing  == call = "_parse_single_promo"

\* C1: a browser session opened by fetch_promo_links or build_promo_dataframe
\* is closed exactly once on every exit path (return, landmark not found,
\* an extraction raising), and it is open while the function works.
C1_SessionClosed ==
    /\ closed <= opened /\ opened <= 1
    /\ (pc \in {"returned", "raised"} => opened = 1 /\ closed = 1)
    /\ (pc \in {"loop", "collect", "b_loop"} => opened = 1 /\ closed = 0)
\* The third of five URLs times out on page load; the session is closed.
C1_Witness ==
    /\ Batching /\ pc = "raised" /\ raised = TIMEOUT
    /\ Len(urls) = 5 /\ Len(recs) = 2 /\ Len(gets) = 3
    /\ opened = 1 /\ closed = 1

StrictlyAscending(s) == \A i \in 1..(Len(s) - 1) : StrLess(s[i], s[i + 1])
\* An href that names a site itself: an absolute URL or a //host reference.
NamesSite(h) == UrlSplit(h, <<>>).netloc # <<>>

\* C2 as stated: the returned list is sorted, has no duplicate, and every URL
\* is absolute and shares the origin of BASE.
C2_Original ==
    (Fetching /\ pc = "returned") =>
        /\ StrictlyAscending(result.v)
        /\ \A i \in 1..Len(result.v) :
             IsAbsolute(result.v[i]) /\ Origin(result.v[i]) = Origin(BASE)
\* C2 amended: the returned list is sorted and has no duplicate, every URL is
\* absolute, and a URL has the origin of BASE unless a card's href names
\* another site, whose host the URL then has.
C2_SortedUniqueAbsolute ==
    (Fetching /\ pc = "returned") =>
        /\ StrictlyAscending(result.v)
        /\ \A i \in 1..Len(result.v) :
             /\ IsAbsolute(result.v[i])
             /\ \/ Origin(result.v[i]) = Origin(BASE)
                \/ \E c \in cards :
                     /\ Truthy(c) /\ NamesSite(c.v)
                     /\ UrlSplit(c.v, <<>>).netloc
                          = UrlSplit(result.v[i], <<>>).netloc
        /\ ((\A c \in cards : Truthy(c) => ~NamesSite(c.v))
              => \A i \in 1..Len(result.v) : Origin(result.v[i]) = Origin(BASE))
\* A relative and an absolute href of the same page collapse into one URL, and
\* the other site's URL sorts first.
C2_Witness ==
    /\ Fetching /\ pc = "returned"
    /\ cards = {Some(HrefA), Some(HrefAbsA), Some(HrefOther)}
    /\ result.v = <<HrefOther, BASE \o HrefA>>

\* C5: one session for the whole batch; the URLs are loaded once each, in input
\* order, the next only after the previous extraction has finished; the
\* result has one row per input URL and row i has link = urls[i].
C5_OneSessionInOrder ==
    Batching =>
        /\ opened <= 1
        /\ Len(gets) <= Len(urls) /\ gets = SubSeq(urls, 1, Len(gets))
        /\ (pc = "b_loop" => Len(gets) = Len(recs))
        /\ (pc = "raised" => Len(gets) = Len(recs) + 1)
        /\ \A i \in 1..Len(recs) : recs[i].link = Some(urls[i])
        /\ (pc = "returned" =>
              /\ opened = 1 /\ gets = urls
              /\ frame.some /\ Len(frame.v) = Len(urls)
              /\ \A i \in 1..Len(urls) : frame.v[i].link = Some(urls[i]))
\* A batch with a duplicated URL returns a row for each.
C5_Witness ==
    /\ Batching /\ pc = "returned"
    /\ Len(urls) = 3 /\ urls[1] = urls[2] /\ urls[3] # urls[1]
    /\ Len(frame.v) = 3 /\ frame.v[2].link = Some(urls[1])

\* C7 as stated: with every card link rendered from the start and the landmark
\* found, the N links are returned whatever the page height, the viewport
\* height and the landmark's position.
C7_Original ==
    (/\ Fetching /\ pc = "returned" /\ loaded = 0 /\ max_stalls >= 1
     /\ \A c \in cards : Truthy(c))
    => result.v = Sorted({ UrlJoin(BASE, c.v) : c \in cards })

C10_Terminates ==
    /\ (pc = "loop") ~> (pc = "returned")
    /\ []((pc = "returned" /\ max_stalls = 0)
            => (result = Some(<<>>) /\ last_y = -1 /\ y = 0))
\* The bottom check ends a run whose stall counter never reached max_stalls,
\* after the page has grown.
C10_Witness ==
    /\ pc = "returned" /\ stalls < max_stalls /\ loaded > 0 /\ y > 0
    /\ seen = {}

Blank(s) == Strip(s) = <<>>
ScalarFields == { "titulo", "foto", "subtitulo", "comercios", "vigencia",
                  "tope_reintegro", "tiempo_acreditacion", "canal" }
ListFields   == { "bancos", "dias", "store_names", "store_addresses" }

\* C3 as stated: link is never null; no scalar field is an empty or blank
\* string, and no entry of a sequence field is one.
C3_Original ==
    (Parsing /\ pc = "p_done") =>
        /\ rec.link # None
        /\ \A f \in ScalarFields : rec[f] = None \/ ~Blank(rec[f].v)
        /\ \A f \in ListFields :
             rec[f] = None
             \/ (rec[f].v # <<>> /\ \A i \in 1..Len(rec[f].v) : ~Blank(rec[f].v[i]))

FinalComercios == IF Truthy(rec.comercios) THEN rec.comercios.v ELSE <<>>
NoStale(nodes) == \A i \in 1..Len(nodes) : nodes[i].k = "ok"

\* C4 as stated: store_names non-null implies store_addresses non-null and of
\* the same length, for any modal content; both are null when comercios
\* does not start with "ver listado".
C4_Original ==
    (Parsing /\ pc = "p_done") =>
        /\ rec.store_names # None =>
             /\ rec.store_addresses # None
             /\ Len(rec.store_addresses.v) = Len(rec.store_names.v)
        /\ ~StartsWith(Lower(FinalComercios), sVerListado) =>
             rec.store_names = None /\ rec.store_addresses = None
\* C4 amended: both are null when the final comercios does not start with
\* "ver listado"; store_names non-null implies store_addresses non-null and
\* of the same length when the modal holds as many store-address as
\* store-name nodes and none of them is skipped as stale.
C4_AlignedWhenPaired ==
    (Parsing /\ pc = "p_done") =>
        /\ ~StartsWith(Lower(FinalComercios), sVerListado) =>
             rec.store_names = None /\ rec.store_addresses = None
        /\ (/\ rec.store_names # None
            /\ dom # <<>>
            /\ Len(dom[1].names) = Len(dom[1].addrs)
            /\ NoStale(dom[1].names) /\ NoStale(dom[1].addrs))
           => /\ rec.store_addresses # None
              /\ Len(rec.store_addresses.v) = Len(rec.store_names.v)
\* Two stores, read in pairs.
C4_Witness ==
    /\ Parsing /\ pc = "p_done"
    /\ rec.store_names = Some(<<tS1, tS1>>)
    /\ rec.store_addresses = Some(<<tA1, tA1>>)
    /\ rec.comercios = Some(tVL)

\* C6 as stated: only the page-load wait makes _parse_single_promo raise;
\* otherwise a record with link set is returned.
C6_Original ==
    /\ (Parsing /\ pc = "p_raised") => raised = TIMEOUT
    /\ (Parsing /\ pc = "p_done") => rec.link = Some(url)

\* The value the first selector that resolves to something non-empty gives.
RECURSIVE FirstNonEmpty(_)
FirstNonEmpty(nodes) ==
    IF nodes = <<>> THEN None
    ELSE IF Head(nodes).k = "ok" /\ ~Blank(Head(nodes).v)
         THEN Some(Strip(Head(nodes).v))
    ELSE FirstNonEmpty(Tail(nodes))

\* C8 as stated: titulo, foto and subtitulo hold the value of the first
\* selector that resolves and yields a non-empty value, and are null only
\* when no selector does.
C8_Original ==
    Parsing =>
        /\ pc = "p_foto" => rec.titulo = FirstNonEmpty(dom)
        /\ pc = "p_sub" =>
             rec.foto = (IF dom[1].k = "ok" /\ Truthy(dom[1].v)
                         THEN dom[1].v ELSE None)
        /\ (pc = "p_blocks" /\ nblk = 0) => rec.subtitulo = FirstNonEmpty(dom)

=============================================================================
